---- MODULE Spec2Model ----
(***************************************************************************)
(* noteplop: staff layout and notation geometry.                           *)
(*                                                                         *)
(* Coordinates are exact rationals, held as integers in units of 1/12 of   *)
(* an SVG unit: the first measure's grid step (760-240)/15 = 104/3 and the *)
(* ladder's half positions (212.5, ...) and their midpoints are then all   *)
(* integers. The source computes in IEEE doubles; every comparison it      *)
(* makes on grid values (===, <= 70, the one-decimal rounding) is at least *)
(* 1/30 away from its threshold, so the exact arithmetic decides each of   *)
(* them as the doubles do.                                                 *)
(***************************************************************************)
EXTENDS Integers, Sequences, FiniteSets, TLC

VARIABLES
    quant,              \* the quantizer under test: its input and its results so far
    staff,              \* one Staff render: its props and what it derived
    measures,           \* activeTrack.measures: <<[id, number, notes]>>
    activeMeasureId,    \* ScoreContext.activeMeasureId (0 = null)
    idCounter,          \* ScoreContext's module-level idCounter
    selectedDuration,   \* NotePlopper state
    ghostNote,          \* NotePlopper state (NoGhost = null)
    draggedNoteId,      \* NotePlopper state (0 = null)
    hoveredNoteId       \* NotePlopper state (0 = null)

uiVars == <<measures, activeMeasureId, idCounter, selectedDuration, ghostNote,
            draggedNoteId, hoveredNoteId>>
vars == <<quant, staff, measures, activeMeasureId, idCounter, selectedDuration,
          ghostNote, draggedNoteId, hoveredNoteId>>

----------------------------------------------------------------------------
(* Units and arithmetic *)

U == 3 * 4
Px(n) == n * U
HalfPx == U \div 2

Abs(a) == IF a < 0 THEN -a ELSE a
Max2(a, b) == IF a > b THEN a ELSE b
Min2(a, b) == IF a < b THEN a ELSE b

\* Math.round of the rational num/den (den > 0): floor(num/den + 1/2)
MathRound(num, den) == (2 * num + den) \div (2 * den)

SeqToSet(s) == { s[i] : i \in 1..Len(s) }

----------------------------------------------------------------------------
(* Staff configuration constants *)

LINE_SPACING == Px(75)
STAFF_LINE_POSITIONS == << Px(250), Px(325), Px(400), Px(475), Px(550) >>
LEDGER_LINE_POSITIONS_ABOVE ==
    << Px(250) - LINE_SPACING, Px(250) - LINE_SPACING * 2, Px(250) - LINE_SPACING * 3 >>
LEDGER_LINE_POSITIONS_BELOW ==
    << Px(550) + LINE_SPACING, Px(550) + LINE_SPACING * 2, Px(550) + LINE_SPACING * 3 >>
STAFF_SPACE_POSITIONS ==
    << Px(212) + HalfPx, Px(287) + HalfPx, Px(362) + HalfPx,
       Px(437) + HalfPx, Px(512) + HalfPx, Px(587) + HalfPx >>
LEDGER_SPACE_POSITIONS ==
    << Px(212) + HalfPx, Px(137) + HalfPx, Px(62) + HalfPx,
       Px(587) + HalfPx, Px(662) + HalfPx, Px(737) + HalfPx >>

NOTE_HEAD_RADIUS == Px(24)
MIN_Y == Px(25) - NOTE_HEAD_RADIUS \div 2 - Px(1)
MAX_Y == Px(775) + NOTE_HEAD_RADIUS \div 2 + Px(1)

\* [...].sort((a, b) => a - b): the duplicates (212.5 and 587.5) stay in
SNAP_POINTS ==
    SortSeq(STAFF_LINE_POSITIONS \o LEDGER_LINE_POSITIONS_ABOVE \o LEDGER_LINE_POSITIONS_BELOW
            \o STAFF_SPACE_POSITIONS \o LEDGER_SPACE_POSITIONS,
            LAMBDA a, b : a < b)

MIN_X_FIRST_MEASURE == Px(240)
MIN_X_OTHER_MEASURES == Px(40)

getMinX(isFirstMeasure) ==
    IF isFirstMeasure THEN MIN_X_FIRST_MEASURE ELSE MIN_X_OTHER_MEASURES

getMaxX == Px(760)

----------------------------------------------------------------------------
(* GridQuantizer *)

\* variant: on equal distances the later ladder entry wins
RECURSIVE ReduceClosest_TieLater(_, _, _, _)
ReduceClosest_TieLater(points, i, prev, clampedY) ==
    IF i > Len(points) THEN prev
    ELSE ReduceClosest_TieLater(points, i + 1,
                                IF Abs(points[i] - clampedY) <= Abs(prev - clampedY)
                                THEN points[i] ELSE prev,
                                clampedY)

\* SNAP_POINTS.reduce((prev, curr) => |curr - c| < |prev - c| ? curr : prev)
RECURSIVE ReduceClosest(_, _, _, _)
ReduceClosest(points, i, prev, clampedY) ==
    IF i > Len(points) THEN prev
    ELSE ReduceClosest(points, i + 1,
                       IF Abs(points[i] - clampedY) < Abs(prev - clampedY)
                       THEN points[i] ELSE prev,
                       clampedY)

\* variant: rounds to a multiple of half the line spacing instead of searching the ladder
snapToStaff_RoundToSpacing(y) ==
    LET clampedY == Max2(MIN_Y, Min2(y, MAX_Y))
    IN  MathRound(clampedY, LINE_SPACING \div 2) * (LINE_SPACING \div 2)

snapToStaff(y) ==
    LET clampedY == Max2(MIN_Y, Min2(y, MAX_Y))
    IN  ReduceClosest(SNAP_POINTS, 2, SNAP_POINTS[1], clampedY)

divisions == 15

\* stepSize = range / divisions, exact in twelfths (416 or 576)
StepSize(isFirstMeasure) == (getMaxX - getMinX(isFirstMeasure)) \div divisions

\* variant: Math.floor where the source has Math.round
snapToGrid_Floor(x, isFirstMeasure) ==
    LET minX == getMinX(isFirstMeasure)
        stepSize == StepSize(isFirstMeasure)
        snapIndex == (x - minX) \div stepSize
        clampedIndex == Max2(0, Min2(snapIndex, 15))
    IN  minX + clampedIndex * stepSize

snapToGrid(x, isFirstMeasure) ==
    LET minX == getMinX(isFirstMeasure)
        stepSize == StepSize(isFirstMeasure)
        relativeX == x - minX
        snapIndex == MathRound(relativeX, stepSize)
        clampedIndex == Max2(0, Min2(snapIndex, 15))
    IN  minX + clampedIndex * stepSize

----------------------------------------------------------------------------
(* BeamGrouper: _beamingUtils.ts *)

\* Array.prototype.sort((a, b) => a.x - b.x): stable, equal x keep their order
RECURSIVE SortByX(_)
SortByX(ns) ==
    IF ns = <<>> THEN <<>>
    ELSE LET rest == SortByX(SubSeq(ns, 1, Len(ns) - 1))
             n == ns[Len(ns)]
             before == SelectSeq(rest, LAMBDA m : m.x <= n.x)
             after == SelectSeq(rest, LAMBDA m : m.x > n.x)
         IN  before \o <<n>> \o after

MAX_BEAM_DISTANCE == Px(70)

isBeamable(note) == note.duration = "eighth" \/ note.duration = "sixteenth"

\* variant: a run of one note is pushed as a group too
PushIfGroup_AnyLength(beamGroups, currentGroup) ==
    IF Len(currentGroup) >= 1 THEN Append(beamGroups, currentGroup) ELSE beamGroups

\* if (currentGroup.length >= 2) beamGroups.push(currentGroup)
PushIfGroup(beamGroups, currentGroup) ==
    IF Len(currentGroup) >= 2 THEN Append(beamGroups, currentGroup) ELSE beamGroups

\* the for loop over sortedNotes from index i, and the push after it
RECURSIVE BeamLoop(_, _, _, _)
BeamLoop(sortedNotes, i, beamGroups, currentGroup) ==
    IF i > Len(sortedNotes) THEN PushIfGroup(beamGroups, currentGroup)
    ELSE LET note == sortedNotes[i]
         IN  IF ~isBeamable(note)
             THEN BeamLoop(sortedNotes, i + 1, PushIfGroup(beamGroups, currentGroup), <<>>)
             ELSE IF Len(currentGroup) = 0
             THEN BeamLoop(sortedNotes, i + 1, beamGroups, <<note>>)
             ELSE LET lastNote == currentGroup[Len(currentGroup)]
                      xDistance == note.x - lastNote.x
                  IN  IF xDistance <= MAX_BEAM_DISTANCE
                      THEN BeamLoop(sortedNotes, i + 1, beamGroups, Append(currentGroup, note))
                      ELSE BeamLoop(sortedNotes, i + 1,
                                    PushIfGroup(beamGroups, currentGroup), <<note>>)

\* variant: non-beamable notes are dropped before the walk, so they end no group
groupNotesForBeaming_SkipNonBeamable(ns) ==
    BeamLoop(SelectSeq(SortByX(ns), isBeamable), 1, <<>>, <<>>)

groupNotesForBeaming(ns) == BeamLoop(SortByX(ns), 1, <<>>, <<>>)

\* beamGroups.flat().map(note => note.id)
beamedNoteIds(beamGroups) ==
    UNION { { beamGroups[g][k].id : k \in 1..Len(beamGroups[g]) } : g \in 1..Len(beamGroups) }

\* variant: the beamed notes are not filtered out
getUnbeamedNotes_NoFilter(ns, beamGroups) == ns

getUnbeamedNotes(ns, beamGroups) ==
    SelectSeq(ns, LAMBDA note : note.id \notin beamedNoteIds(beamGroups))

----------------------------------------------------------------------------
(* DurationConnectorMatcher: _durationConnectorUtils.ts *)

DURATION_COLORS(duration) ==
    CASE duration = "whole" -> "#4A90E2"
      [] duration = "half" -> "#50C878"
      [] duration = "quarter" -> "#F5A623"
      [] duration = "eighth" -> "#FF6B35"
      [] duration = "sixteenth" -> "#E83F6F"
      [] OTHER -> "#FFFFFF"

\* DURATION_IN_STEPS[duration] || 3.75, in quarters of a grid step
StepsInDurationX4(duration) ==
    CASE duration = "whole" -> 15 * 4
      [] duration = "half" -> 8 * 4
      [] duration = "quarter" -> 4 * 4
      [] duration = "eighth" -> 2 * 4
      [] duration = "sixteenth" -> 1 * 4
      [] OTHER -> 15

\* variant: rounds to the nearest hundred instead of the nearest tenth
RoundToTenth_ToHundred(distance) == MathRound(distance, 100 * U)

\* Math.round(distance * 10) / 10, in tenths (distance in twelfths)
RoundToTenth(distance) == MathRound(10 * distance, U)

\* variant: the same-y pairs are not skipped
PairConnector_NoYCheck(previousNote, currentNote, firstX) ==
    LET actualDistance == currentNote.x - previousNote.x
        minX == IF firstX = Px(240) THEN Px(240) ELSE Px(40)
        stepSize == (Px(760) - minX) \div 15
        expectedDistance == (StepsInDurationX4(previousNote.duration) * stepSize) \div 4
    IN  IF RoundToTenth(actualDistance) = RoundToTenth(expectedDistance)
        THEN << [x |-> currentNote.x, y1 |-> previousNote.y, y2 |-> currentNote.y,
                 color |-> DURATION_COLORS(previousNote.duration)] >>
        ELSE <<>>

\* variant: the expected distance is taken from the current note's duration
PairConnector_CurrentDuration(previousNote, currentNote, firstX) ==
    IF currentNote.y = previousNote.y THEN <<>>
    ELSE LET actualDistance == currentNote.x - previousNote.x
             minX == IF firstX = Px(240) THEN Px(240) ELSE Px(40)
             stepSize == (Px(760) - minX) \div 15
             expectedDistance == (StepsInDurationX4(currentNote.duration) * stepSize) \div 4
         IN  IF RoundToTenth(actualDistance) = RoundToTenth(expectedDistance)
             THEN << [x |-> currentNote.x, y1 |-> previousNote.y, y2 |-> currentNote.y,
                      color |-> DURATION_COLORS(previousNote.duration)] >>
             ELSE <<>>

\* the connector of the pair (previousNote, currentNote), or none
PairConnector(previousNote, currentNote, firstX) ==
    IF currentNote.y = previousNote.y THEN <<>>
    ELSE LET actualDistance == currentNote.x - previousNote.x
             minX == IF firstX = Px(240) THEN Px(240) ELSE Px(40)
             stepSize == (Px(760) - minX) \div 15
             expectedDistance == (StepsInDurationX4(previousNote.duration) * stepSize) \div 4
         IN  IF RoundToTenth(actualDistance) = RoundToTenth(expectedDistance)
             THEN << [x |-> currentNote.x, y1 |-> previousNote.y, y2 |-> currentNote.y,
                      color |-> DURATION_COLORS(previousNote.duration)] >>
             ELSE <<>>

\* for (let i = 0; i < index; i++): the connectors that end at allNotes[index]
RECURSIVE InnerLoop(_, _, _)
InnerLoop(allNotes, index, i) ==
    IF i >= index THEN <<>>
    ELSE PairConnector(allNotes[i], allNotes[index], allNotes[1].x)
         \o InnerLoop(allNotes, index, i + 1)

\* allNotes.forEach((currentNote, index) => ...)
RECURSIVE OuterLoop(_, _)
OuterLoop(allNotes, index) ==
    IF index > Len(allNotes) THEN <<>>
    ELSE InnerLoop(allNotes, index, 1) \o OuterLoop(allNotes, index + 1)

XYD(n) == [x |-> n.x, y |-> n.y, duration |-> n.duration]

calculateDurationConnectors(placedNotes, ghost) ==
    LET placed == [i \in 1..Len(placedNotes) |-> XYD(placedNotes[i])]
        allNotes == SortByX(IF ghost.none THEN placed ELSE Append(placed, XYD(ghost)))
    IN  IF Len(allNotes) = 0 THEN <<>> ELSE OuterLoop(allNotes, 2)

----------------------------------------------------------------------------
(* Values shared by the state *)

Durations == {"whole", "half", "quarter", "eighth", "sixteenth"}

NoGhost == [none |-> TRUE]
Ghost(x, y, duration) == [none |-> FALSE, x |-> x, y |-> y, duration |-> duration]

\* useState initial values of NotePlopper and ScoreProvider: one score, one
\* track, one measure numbered 1 with no notes; generateId has run three times
\* (measure-1, track-2, score-3)
UIInit ==
    /\ measures = << [id |-> 1, number |-> 1, notes |-> <<>>] >>
    /\ activeMeasureId = 1
    /\ idCounter = 3
    /\ selectedDuration = "quarter"
    /\ ghostNote = NoGhost
    /\ draggedNoteId = 0
    /\ hoveredNoteId = 0

QuantIdle == [fn |-> "none", arg |-> 0, isFirstMeasure |-> TRUE, out |-> <<>>]
StaffIdle == [phase |-> "none"]

----------------------------------------------------------------------------
(* The quantizer on its own: raw coordinates in, snapped coordinates out *)

STAFF_WIDTH == Px(800)
STAFF_HEIGHT == Px(900)

\* raw pointer coordinates: the viewBox and a margin around it, every twelfth
RawMargin == 20
RawXs == (0 - Px(RawMargin)) .. (STAFF_WIDTH + Px(RawMargin))
RawYs == (0 - Px(RawMargin)) .. (STAFF_HEIGHT + Px(RawMargin))

\* how often the vertical result is fed back into snapToStaff
MaxSnaps == 2

QuantInit ==
    /\ quant \in [fn : {"snapToGrid"}, arg : RawXs, isFirstMeasure : BOOLEAN, out : {<<>>}]
                 \cup [fn : {"snapToStaff"}, arg : RawYs, isFirstMeasure : {TRUE}, out : {<<>>}]
    /\ staff = StaffIdle
    /\ UIInit

\* const snappedX = snapToGrid(svgPoint.x, isFirstMeasure)
QuantSnapToGrid ==
    /\ quant.fn = "snapToGrid"
    /\ quant.out = <<>>
    /\ quant' = [quant EXCEPT !.out = << snapToGrid(quant.arg, quant.isFirstMeasure) >>]
    /\ UNCHANGED <<staff, uiVars>>

\* const snappedY = snapToStaff(svgPoint.y), and again on its own result
QuantSnapToStaff ==
    /\ quant.fn = "snapToStaff"
    /\ Len(quant.out) < MaxSnaps
    /\ LET y == IF quant.out = <<>> THEN quant.arg ELSE quant.out[Len(quant.out)]
       IN  quant' = [quant EXCEPT !.out = Append(@, snapToStaff(y))]
    /\ UNCHANGED <<staff, uiVars>>

QuantNext == QuantSnapToGrid \/ QuantSnapToStaff

SpecQuant == QuantInit /\ [][QuantNext]_vars

----------------------------------------------------------------------------
(* One Staff render on its own: props in, derived geometry out *)

\* the x snapToGrid gives grid index k: minX + clampedIndex * stepSize
GridX(isFirstMeasure, k) == getMinX(isFirstMeasure) + k * StepSize(isFirstMeasure)

PlacedNote(id, isFirstMeasure, k, y, duration) ==
    [id |-> id, x |-> GridX(isFirstMeasure, k), y |-> y, duration |-> duration]

\* bounds of the render inputs
MaxStaffNotes == 3                      \* longest free note list
MaxRun == 4                             \* longest gapless run
ProbeYs == { Px(250), Px(437) + HalfPx }
ListIdx == { 0, 1, 2 }                  \* gaps of 1 and 2 grid steps
ListDurations == { "quarter", "eighth", "sixteenth" }

\* two notes anywhere on the measure's grid, any durations
PairProps(f) ==
    { [notes |-> << PlacedNote(1, f, k1, y1, d1), PlacedNote(2, f, k2, y2, d2) >>,
       ghostNote |-> NoGhost] :
        k1 \in 0..15, k2 \in 0..15, y1 \in ProbeYs, y2 \in ProbeYs,
        d1 \in Durations, d2 \in Durations }

\* one note and the ghost of a placement, anywhere on the grid
GhostProps(f) ==
    { [notes |-> << PlacedNote(1, f, k1, y1, d1) >>,
       ghostNote |-> Ghost(GridX(f, k2), y2, d2)] :
        k1 \in 0..15, k2 \in 0..15, y1 \in ProbeYs, y2 \in ProbeYs,
        d1 \in Durations, d2 \in ListDurations }

\* a list of n notes over the list positions, one choice c[i] per note
ListProps(f, n, c) ==
    [notes |-> [i \in 1..n |-> PlacedNote(i, f, c[i][1], c[i][2], c[i][3])],
     ghostNote |-> NoGhost]

\* n notes of one duration, each exactly its own span after the previous one
Span(duration) == StepsInDurationX4(duration) \div 4

RunProps(f, n, d, k0, ys) ==
    [notes |-> [i \in 1..n |-> PlacedNote(i, f, k0 + (i - 1) * Span(d), ys[i], d)],
     ghostNote |-> NoGhost]

StaffStart(f, p) ==
    staff = [phase |-> "props", isFirstMeasure |-> f,
             notes |-> p.notes, ghostNote |-> p.ghostNote,
             beamGroups |-> <<>>, unbeamedNotes |-> <<>>, durationConnectors |-> <<>>,
             connectorLines |-> <<>>]

StaffInit ==
    /\ \E f \in BOOLEAN :
          \/ \E p \in PairProps(f) : StaffStart(f, p)
          \/ \E p \in GhostProps(f) : StaffStart(f, p)
          \/ \E n \in 0..MaxStaffNotes :
                \E c \in [1..n -> ListIdx \X ProbeYs \X ListDurations] :
                    StaffStart(f, ListProps(f, n, c))
          \/ \E n \in 2..MaxRun, d \in {"eighth", "sixteenth"}, k0 \in 0..15 :
                /\ k0 + (n - 1) * Span(d) <= 15
                /\ \E ys \in [1..n -> ProbeYs] : StaffStart(f, RunProps(f, n, d, k0, ys))
    /\ quant = QuantIdle
    /\ UIInit

\* the <line> drawn for one connector, none when both ends have one y
ConnectorLine(connector, index) ==
    IF connector.y1 = connector.y2 THEN <<>>
    ELSE LET isAbove == connector.y2 < connector.y1
         IN  << [index |-> index,
                 x1 |-> connector.x,
                 y1 |-> IF isAbove THEN connector.y1 + Px(4) ELSE connector.y1 - Px(4),
                 x2 |-> connector.x,
                 y2 |-> IF isAbove THEN connector.y2 - Px(4) ELSE connector.y2 + Px(4),
                 stroke |-> connector.color] >>

\* durationConnectors.map((connector, index) => ...) without the nulls
RECURSIVE ConnectorLines(_, _)
ConnectorLines(connectors, index) ==
    IF index > Len(connectors) THEN <<>>
    ELSE ConnectorLine(connectors[index], index) \o ConnectorLines(connectors, index + 1)

\* the body of Staff: beam groups, unbeamed notes and connectors re-derived
\* from the props (duration indicators shown, as NotePlopper starts)
StaffRender ==
    /\ staff.phase = "props"
    /\ LET beamGroups == groupNotesForBeaming(staff.notes)
           durationConnectors == calculateDurationConnectors(staff.notes, staff.ghostNote)
       IN  staff' = [staff EXCEPT
                        !.phase = "rendered",
                        !.beamGroups = beamGroups,
                        !.unbeamedNotes = getUnbeamedNotes(staff.notes, beamGroups),
                        !.durationConnectors = durationConnectors,
                        !.connectorLines = ConnectorLines(durationConnectors, 1)]
    /\ UNCHANGED <<quant, uiVars>>

StaffNext == StaffRender

SpecStaff == StaffInit /\ [][StaffNext]_vars

----------------------------------------------------------------------------
(* C1, C2: the quantizer's results *)

\* the k-th of the 16 grid values of a measure: minX + k * stepSize
GridValue(isFirst, k) ==
    LET minX == IF isFirst THEN Px(240) ELSE Px(40)
    IN  minX + (k * (Px(760) - minX)) \div 15

GridValues(isFirst) == { GridValue(isFirst, k) : k \in 0..15 }

\* C1: for every raw x and either geometry snapToGrid returns the grid value
\* minX + k*(760-minX)/15, k in 0..15, that is nearest to x; x below minX gives
\* minX and x above 760 gives 760, so the result is one of 16 values.
C1_SnapToGridNearest ==
    (quant.fn = "snapToGrid" /\ quant.out # <<>>) =>
        LET x == quant.arg
            f == quant.isFirstMeasure
            r == quant.out[1]
        IN  /\ r \in GridValues(f)
            /\ Cardinality(GridValues(f)) = 16
            /\ \A g \in GridValues(f) : Abs(x - r) <= Abs(x - g)
            /\ (x < GridValue(f, 0)) => r = GridValue(f, 0)
            /\ (x > Px(760)) => r = Px(760)

\* a raw x strictly inside the first measure's span was moved onto an inner grid value
C1_Witness ==
    /\ quant.fn = "snapToGrid" /\ quant.out # <<>>
    /\ quant.isFirstMeasure
    /\ quant.arg = Px(300)
    /\ quant.out[1] = GridValue(TRUE, 2)

\* C2: snapToStaff returns a member of SNAP_POINTS for every raw y and is
\* idempotent: snapping its own result gives that result again, and every
\* ladder value maps to itself.
C2_SnapToStaffIdempotent ==
    (quant.fn = "snapToStaff" /\ quant.out # <<>>) =>
        /\ quant.out[1] \in SeqToSet(SNAP_POINTS)
        /\ (quant.arg \in SeqToSet(SNAP_POINTS)) => quant.out[1] = quant.arg
        /\ (Len(quant.out) >= 2) => quant.out[2] = quant.out[1]

\* a raw y off the ladder was snapped, and snapping the result again changed nothing
C2_Witness ==
    /\ quant.fn = "snapToStaff"
    /\ Len(quant.out) = 2
    /\ quant.arg \notin SeqToSet(SNAP_POINTS)
    /\ quant.out[1] # quant.arg
    /\ quant.out[2] = quant.out[1]

----------------------------------------------------------------------------
(* ScoreContext: the score store (one score, one track) *)

\* measures.findIndex(m => m.id === id), 1-based; 0 when absent (-1 in the source)
findIndex(ms, id) ==
    IF \E i \in 1..Len(ms) : ms[i].id = id
    THEN CHOOSE i \in 1..Len(ms) : ms[i].id = id /\ \A j \in 1..(i - 1) : ms[j].id # id
    ELSE 0

\* notes.find(pred): index of the first note that satisfies it, 0 when none
FirstIndex(hits) ==
    IF hits = {} THEN 0 ELSE CHOOSE i \in hits : \A j \in hits : i <= j

FindNoteById(ns, noteId) ==
    FirstIndex({i \in 1..Len(ns) : ns[i].id = noteId})

FindNoteAt(ns, x, y) ==
    FirstIndex({i \in 1..Len(ns) : ns[i].x = x /\ ns[i].y = y})

addMeasure(ms, measureId) ==
    Append(ms, [id |-> measureId, number |-> Len(ms) + 1, notes |-> <<>>])

\* variant: the remaining measures keep their numbers
deleteMeasure_KeepNumbers(ms, measureId) ==
    SelectSeq(ms, LAMBDA m : m.id # measureId)

deleteMeasure(ms, measureId) ==
    LET kept == SelectSeq(ms, LAMBDA m : m.id # measureId)
    IN  [i \in 1..Len(kept) |-> [kept[i] EXCEPT !.number = i]]

addNote(ms, measureId, note, noteId) ==
    [i \in 1..Len(ms) |->
        IF ms[i].id = measureId
        THEN [ms[i] EXCEPT !.notes = Append(@, [id |-> noteId, x |-> note.x, y |-> note.y,
                                                duration |-> note.duration])]
        ELSE ms[i]]

\* variant: the update is applied to every note of the measure
updateNote_WholeMeasure(ms, measureId, noteId, updates) ==
    [i \in 1..Len(ms) |->
        IF ms[i].id = measureId
        THEN [ms[i] EXCEPT !.notes =
                [k \in 1..Len(@) |-> [@[k] EXCEPT !.x = updates.x, !.y = updates.y]]]
        ELSE ms[i]]

updateNote(ms, measureId, noteId, updates) ==
    [i \in 1..Len(ms) |->
        IF ms[i].id = measureId
        THEN [ms[i] EXCEPT !.notes =
                [k \in 1..Len(@) |->
                    IF @[k].id = noteId
                    THEN [@[k] EXCEPT !.x = updates.x, !.y = updates.y]
                    ELSE @[k]]]
        ELSE ms[i]]

deleteNote(ms, measureId, noteId) ==
    [i \in 1..Len(ms) |->
        IF ms[i].id = measureId
        THEN [ms[i] EXCEPT !.notes = SelectSeq(@, LAMBDA n : n.id # noteId)]
        ELSE ms[i]]

\* useMemo: activeTrack.measures.find(m => m.id === activeMeasureId) ?? null
HasActiveMeasure == findIndex(measures, activeMeasureId) # 0
activeMeasure == measures[findIndex(measures, activeMeasureId)]

----------------------------------------------------------------------------
(* NotePlopper: the pointer and measure handlers *)

\* bounds of the interaction model
MaxId == 5              \* generateId stops here: two measures or notes beyond the default score
UIRawXs == { Px(30), Px(270) }      \* left of both measures' minX; inside both spans
UIRawYs == { Px(5), Px(420) }       \* above MIN_Y; between two ladder entries
PaletteDurations == { "sixteenth" } \* the tool picked in the palette (the initial one is quarter)

notes == activeMeasure.notes
measureId == activeMeasure.id

\* let activeDuration = selectedDuration; the hovered note's duration when it is found
activeDuration ==
    LET h == FindNoteById(notes, hoveredNoteId)
    IN  IF hoveredNoteId # 0 /\ h # 0 THEN notes[h].duration ELSE selectedDuration

handleSelectDuration(duration) ==
    /\ HasActiveMeasure
    /\ selectedDuration' = duration
    /\ UNCHANGED <<measures, activeMeasureId, idCounter, ghostNote, draggedNoteId, hoveredNoteId>>

handleNotePointerEnter(noteId) ==
    /\ HasActiveMeasure
    /\ hoveredNoteId' = noteId
    /\ UNCHANGED <<measures, activeMeasureId, idCounter, selectedDuration, ghostNote, draggedNoteId>>

handleNotePointerLeave ==
    /\ HasActiveMeasure
    /\ hoveredNoteId' = IF draggedNoteId = 0 THEN 0 ELSE hoveredNoteId
    /\ UNCHANGED <<measures, activeMeasureId, idCounter, selectedDuration, ghostNote, draggedNoteId>>

handleNotePointerDown(noteId) ==
    /\ HasActiveMeasure
    /\ LET i == FindNoteById(notes, noteId)
       IN  IF i = 0
           THEN UNCHANGED <<draggedNoteId, hoveredNoteId, ghostNote>>
           ELSE /\ draggedNoteId' = noteId
                /\ hoveredNoteId' = noteId
                /\ ghostNote' = Ghost(notes[i].x, notes[i].y, notes[i].duration)
    /\ UNCHANGED <<measures, activeMeasureId, idCounter, selectedDuration>>

\* variant: the right edge is not tested
isOutsideBounds_NoRightEdge(svgPoint, isFirstMeasure) ==
    \/ svgPoint.y < MIN_Y
    \/ svgPoint.y > MAX_Y
    \/ svgPoint.x < getMinX(isFirstMeasure)

isOutsideBounds(svgPoint, isFirstMeasure) ==
    \/ svgPoint.y < MIN_Y
    \/ svgPoint.y > MAX_Y
    \/ svgPoint.x < getMinX(isFirstMeasure)
    \/ svgPoint.x > getMaxX

handlePointerMove(svgPoint) ==
    /\ HasActiveMeasure
    /\ LET isFirstMeasure == activeMeasure.number = 1
           snappedX == snapToGrid(svgPoint.x, isFirstMeasure)
           snappedY == snapToStaff(svgPoint.y)
           d == FindNoteById(notes, draggedNoteId)
       IN  IF draggedNoteId # 0
           THEN IF d # 0
                THEN IF isOutsideBounds(svgPoint, isFirstMeasure)
                     THEN /\ measures' = deleteNote(measures, measureId, draggedNoteId)
                          /\ draggedNoteId' = 0
                          /\ ghostNote' = NoGhost
                          /\ hoveredNoteId' = 0
                     ELSE /\ ghostNote' = Ghost(snappedX, snappedY, notes[d].duration)
                          /\ UNCHANGED <<measures, draggedNoteId, hoveredNoteId>>
                ELSE UNCHANGED <<measures, draggedNoteId, hoveredNoteId, ghostNote>>
           ELSE /\ ghostNote' =
                     IF hoveredNoteId # 0 THEN NoGhost
                     ELSE IF activeDuration = "null" THEN NoGhost
                     ELSE IF FindNoteAt(notes, snappedX, snappedY) # 0
                          THEN NoGhost
                     ELSE Ghost(snappedX, snappedY, activeDuration)
                /\ UNCHANGED <<measures, draggedNoteId, hoveredNoteId>>
    /\ UNCHANGED <<activeMeasureId, idCounter, selectedDuration>>

handlePointerLeave ==
    /\ HasActiveMeasure
    /\ ghostNote' = NoGhost
    /\ draggedNoteId' = 0
    /\ hoveredNoteId' = 0
    /\ UNCHANGED <<measures, activeMeasureId, idCounter, selectedDuration>>

\* the Staff's onPointerUp: finishes a drag or places a new note
handlePointerDown ==
    /\ HasActiveMeasure
    /\ IF draggedNoteId # 0 /\ ghostNote # NoGhost
       THEN /\ measures' = updateNote(measures, measureId, draggedNoteId,
                                      [x |-> ghostNote.x, y |-> ghostNote.y])
            /\ draggedNoteId' = 0
            /\ ghostNote' = NoGhost
            /\ hoveredNoteId' = 0
            /\ UNCHANGED idCounter
       ELSE IF ghostNote = NoGhost \/ activeDuration = "null"
       THEN UNCHANGED <<measures, idCounter, ghostNote, draggedNoteId, hoveredNoteId>>
       ELSE /\ idCounter < MaxId
            /\ idCounter' = idCounter + 1
            /\ measures' = addNote(measures, measureId,
                                   [x |-> ghostNote.x, y |-> ghostNote.y,
                                    duration |-> activeDuration],
                                   idCounter + 1)
            /\ UNCHANGED <<ghostNote, draggedNoteId, hoveredNoteId>>
    /\ UNCHANGED <<activeMeasureId, selectedDuration>>

handlePreviousMeasure ==
    /\ HasActiveMeasure
    /\ LET currentIndex == findIndex(measures, measureId)
       IN  activeMeasureId' = IF currentIndex > 1 THEN measures[currentIndex - 1].id
                              ELSE activeMeasureId
    /\ UNCHANGED <<measures, idCounter, selectedDuration, ghostNote, draggedNoteId, hoveredNoteId>>

handleNextMeasure ==
    /\ HasActiveMeasure
    /\ LET currentIndex == findIndex(measures, measureId)
       IN  activeMeasureId' = IF currentIndex < Len(measures) THEN measures[currentIndex + 1].id
                              ELSE activeMeasureId
    /\ UNCHANGED <<measures, idCounter, selectedDuration, ghostNote, draggedNoteId, hoveredNoteId>>

handleAddMeasure ==
    /\ HasActiveMeasure
    /\ idCounter < MaxId
    /\ idCounter' = idCounter + 1
    /\ measures' = addMeasure(measures, idCounter + 1)
    /\ activeMeasureId' = idCounter + 1
    /\ UNCHANGED <<selectedDuration, ghostNote, draggedNoteId, hoveredNoteId>>

\* activeMeasure.notes.forEach(note => deleteNote(measureId, note.id))
RECURSIVE DeleteEach(_, _, _)
DeleteEach(ms, mId, ns) ==
    IF ns = <<>> THEN ms ELSE DeleteEach(deleteNote(ms, mId, Head(ns).id), mId, Tail(ns))

handleResetMeasure ==
    /\ HasActiveMeasure
    /\ measures' = DeleteEach(measures, measureId, notes)
    /\ UNCHANGED <<activeMeasureId, idCounter, selectedDuration, ghostNote, draggedNoteId,
                   hoveredNoteId>>

\* variant: the measure numbered 1 is deleted like any other
handleDeleteMeasure_NoFirstGuard ==
    /\ HasActiveMeasure
    /\ LET currentIndex == findIndex(measures, measureId)
           previousMeasureId == IF currentIndex > 1 THEN measures[currentIndex - 1].id ELSE 0
       IN  /\ measures' = deleteMeasure(measures, measureId)
           /\ activeMeasureId' = IF previousMeasureId # 0 THEN previousMeasureId ELSE 0
    /\ UNCHANGED <<idCounter, selectedDuration, ghostNote, draggedNoteId, hoveredNoteId>>

handleDeleteMeasure ==
    /\ HasActiveMeasure
    /\ IF activeMeasure.number = 1
       THEN UNCHANGED <<measures, activeMeasureId>>
       ELSE LET currentIndex == findIndex(measures, measureId)
                previousMeasureId == IF currentIndex > 1 THEN measures[currentIndex - 1].id ELSE 0
            IN  /\ measures' = deleteMeasure(measures, measureId)
                   \* deleteMeasure sets the active id to null, the handler then to the previous
                /\ activeMeasureId' = IF previousMeasureId # 0 THEN previousMeasureId ELSE 0
    /\ UNCHANGED <<idCounter, selectedDuration, ghostNote, draggedNoteId, hoveredNoteId>>

Init ==
    /\ quant = QuantIdle
    /\ staff = StaffIdle
    /\ UIInit

Next ==
    \/ \E x \in UIRawXs, y \in UIRawYs :
          handlePointerMove([x |-> x, y |-> y]) /\ UNCHANGED <<quant, staff>>
    \/ handlePointerDown /\ UNCHANGED <<quant, staff>>
    \/ handlePointerLeave /\ UNCHANGED <<quant, staff>>
    \/ \E i \in 1..Len(notes) : handleNotePointerEnter(notes[i].id) /\ UNCHANGED <<quant, staff>>
    \/ \E i \in 1..Len(notes) : handleNotePointerDown(notes[i].id) /\ UNCHANGED <<quant, staff>>
    \/ handleNotePointerLeave /\ UNCHANGED <<quant, staff>>
    \/ \E d \in PaletteDurations : handleSelectDuration(d) /\ UNCHANGED <<quant, staff>>
    \/ handlePreviousMeasure /\ UNCHANGED <<quant, staff>>
    \/ handleNextMeasure /\ UNCHANGED <<quant, staff>>
    \/ handleAddMeasure /\ UNCHANGED <<quant, staff>>
    \/ handleResetMeasure /\ UNCHANGED <<quant, staff>>
    \/ handleDeleteMeasure /\ UNCHANGED <<quant, staff>>

Spec == Init /\ [][Next]_vars

----------------------------------------------------------------------------
(* C3, C4: what the pointer handlers persist *)

AllNotes == UNION { { [m |-> measures[i], n |-> measures[i].notes[k]] :
                        k \in 1..Len(measures[i].notes) } : i \in 1..Len(measures) }

\* C3: in every reachable state every persisted note's y is a ladder member and
\* its x is one of the 16 grid values of the measure that owns it (minX = 240
\* when that measure's number is 1, 40 otherwise).
C3_NotesOnGrid ==
    \A e \in AllNotes :
        /\ e.n.y \in SeqToSet(SNAP_POINTS)
        /\ e.n.x \in GridValues(e.m.number = 1)

\* C4: a pointer-release without a drag never adds a note at an (x, y) that a
\* note of the active measure already occupies.
C4_NoCommitOnOccupied ==
    [][ (HasActiveMeasure /\ draggedNoteId = 0 /\ activeMeasureId' = activeMeasureId) =>
            \A i \in 1..Len(measures) :
                \A k \in 1..Len(measures'[i].notes) :
                    LET new == measures'[i].notes[k]
                    IN  (\A o \in SeqToSet(measures[i].notes) : o.id # new.id) =>
                        (\A o \in SeqToSet(measures[i].notes) : ~(o.x = new.x /\ o.y = new.y))
      ]_vars

----------------------------------------------------------------------------
(* C5, C6: beam groups of one render *)

Rendered == staff.phase = "rendered"

\* the step width of a measure: (760 - minX) / 15
GridStep(isFirst) == GridValue(isFirst, 1) - GridValue(isFirst, 0)

\* the grid-step span of a duration
StepSpan(duration) ==
    CASE duration = "whole" -> 15
      [] duration = "half" -> 8
      [] duration = "quarter" -> 4
      [] duration = "eighth" -> 2
      [] duration = "sixteenth" -> 1

GroupIds(group) == { group[k].id : k \in 1..Len(group) }

\* the rendered notes are four eighth notes, each one span after the previous
FourEighthsNoGap ==
    /\ Rendered /\ staff.ghostNote = NoGhost
    /\ Len(staff.notes) = 4
    /\ \A i \in 1..4 : staff.notes[i].duration = "eighth"
    /\ \A i \in 1..3 :
          staff.notes[i + 1].x - staff.notes[i].x = StepSpan("eighth") * GridStep(staff.isFirstMeasure)

\* C5: four eighth notes at successive onsets with no gap, in either geometry,
\* give exactly one beam group holding all four, and none of them is unbeamed.
C5_FourEighthsOneGroup ==
    FourEighthsNoGap =>
        /\ Len(staff.beamGroups) = 1
        /\ GroupIds(staff.beamGroups[1]) = { staff.notes[i].id : i \in 1..4 }
        /\ Len(staff.beamGroups[1]) = 4
        /\ staff.unbeamedNotes = <<>>

NonBeamable(n) == n.duration \in {"whole", "half", "quarter"}

\* C6: a whole, half or quarter note with x strictly between two eighth or
\* sixteenth notes keeps those two out of a common beam group; two eighth notes
\* with one quarter note between them give no group and three unbeamed notes.
C6_NonBeamableSplits ==
    Rendered =>
        /\ \A g \in 1..Len(staff.beamGroups) :
              \A a \in SeqToSet(staff.beamGroups[g]), b \in SeqToSet(staff.beamGroups[g]) :
                  \A n \in SeqToSet(staff.notes) :
                      NonBeamable(n) => ~(a.x < n.x /\ n.x < b.x)
        /\ \A i, j, q \in 1..Len(staff.notes) :
              ( /\ Len(staff.notes) = 3
                /\ staff.notes[i].duration = "eighth" /\ staff.notes[j].duration = "eighth"
                /\ staff.notes[q].duration = "quarter"
                /\ staff.notes[i].x < staff.notes[q].x /\ staff.notes[q].x < staff.notes[j].x )
              => ( /\ staff.beamGroups = <<>>
                   /\ staff.unbeamedNotes = staff.notes )

\* two eighth notes two steps apart in the first measure (69.33 <= 70) with a
\* quarter note on the step between them: rendered without a beam
C6_Witness ==
    /\ Rendered /\ staff.isFirstMeasure
    /\ Len(staff.notes) = 3
    /\ staff.notes[1].duration = "eighth" /\ staff.notes[1].x = GridValue(TRUE, 0)
    /\ staff.notes[2].duration = "eighth" /\ staff.notes[2].x = GridValue(TRUE, 2)
    /\ staff.notes[3].duration = "quarter" /\ staff.notes[3].x = GridValue(TRUE, 1)
    /\ staff.beamGroups = <<>>
    /\ Len(staff.unbeamedNotes) = 3

----------------------------------------------------------------------------
(* C8, C9, C10: connectors of one render *)

\* the render has exactly two notes and no ghost; L is the left one
TwoNotes == Rendered /\ Len(staff.notes) = 2 /\ staff.ghostNote = NoGhost
LeftIx == IF staff.notes[2].x < staff.notes[1].x THEN 2 ELSE 1
LeftNote == staff.notes[LeftIx]
RightNote == staff.notes[3 - LeftIx]

\* C8: two notes, the only ones of a measure, at different y and exactly the
\* left note's span times the measure's step width apart, get exactly one
\* connector, whatever grid positions they occupy.
C8_MatchingGapOneConnector ==
    ( /\ TwoNotes
      /\ LeftNote.y # RightNote.y
      /\ RightNote.x - LeftNote.x = StepSpan(LeftNote.duration) * GridStep(staff.isFirstMeasure) )
    => Len(staff.durationConnectors) = 1

\* C9: no connector joins two notes of the same y, for every note set and ghost.
C9_NoConnectorSameY ==
    Rendered => \A c \in SeqToSet(staff.durationConnectors) : c.y1 # c.y2

\* two notes of one y at exactly the left note's span: rendered without a connector
C9_Witness ==
    /\ TwoNotes
    /\ LeftNote.y = RightNote.y
    /\ LeftNote.x = GridValue(staff.isFirstMeasure, 0)
    /\ RightNote.x - LeftNote.x = StepSpan(LeftNote.duration) * GridStep(staff.isFirstMeasure)
    /\ staff.durationConnectors = <<>>

\* C10: two notes, the only ones of a measure, whose gap in grid steps differs
\* from the left note's span get no connector.
C10_OtherGapNoConnector ==
    ( /\ TwoNotes
      /\ \A i \in 1..2 :
            (staff.notes[i].x <= staff.notes[3 - i].x) =>
                staff.notes[3 - i].x - staff.notes[i].x
                    # StepSpan(staff.notes[i].duration) * GridStep(staff.isFirstMeasure) )
    => staff.durationConnectors = <<>>

\* two quarter notes of the first measure, five steps apart at different y
C10_Witness ==
    /\ TwoNotes /\ staff.isFirstMeasure
    /\ LeftNote.duration = "quarter" /\ RightNote.duration = "quarter"
    /\ LeftNote.x = GridValue(TRUE, 0) /\ RightNote.x = GridValue(TRUE, 5)
    /\ LeftNote.y # RightNote.y
    /\ staff.durationConnectors = <<>>

----------------------------------------------------------------------------
(* A drag gesture on a measure of four sixteenth notes *)

DragFirstIdx == { 0, 6 }                \* grid index of the leftmost of the four notes
DragRawXs == { Px(510), Px(700) }       \* pointer positions of the drag, inside both spans
DragRawY == Px(420)

\* the state after: (insert a measure,) pick the sixteenth tool, and four times
\* pointer-move and pointer-up at the grid positions k, k+1, k+2, k+3
DragInit ==
    /\ quant = QuantIdle
    /\ staff = StaffIdle
    /\ selectedDuration = "sixteenth"
    /\ draggedNoteId = 0
    /\ hoveredNoteId = 0
    /\ \E f \in BOOLEAN, k \in DragFirstIdx :
          LET base == IF f THEN 3 ELSE 4
              placed == [i \in 1..4 |->
                            PlacedNote(base + i, f, k + i - 1, snapToStaff(DragRawY), "sixteenth")]
          IN  /\ measures = IF f THEN << [id |-> 1, number |-> 1, notes |-> placed] >>
                            ELSE << [id |-> 1, number |-> 1, notes |-> <<>>],
                                    [id |-> 4, number |-> 2, notes |-> placed] >>
              /\ activeMeasureId = IF f THEN 1 ELSE 4
              /\ idCounter = base + 4
              /\ ghostNote = Ghost(placed[4].x, placed[4].y, "sixteenth")

DragNext ==
    \/ \E i \in 1..Len(notes) : handleNotePointerEnter(notes[i].id) /\ UNCHANGED <<quant, staff>>
    \/ \E i \in 1..Len(notes) : handleNotePointerDown(notes[i].id) /\ UNCHANGED <<quant, staff>>
    \/ \E x \in DragRawXs :
          handlePointerMove([x |-> x, y |-> DragRawY]) /\ UNCHANGED <<quant, staff>>
    \/ handlePointerDown /\ UNCHANGED <<quant, staff>>
    \/ handlePointerLeave /\ UNCHANGED <<quant, staff>>

SpecDrag == DragInit /\ [][DragNext]_vars

\* the four notes in placement order; the third has been dragged to a grid
\* position not adjacent to the one it left, the others are where they were placed
ThirdMovedAway ==
    /\ HasActiveMeasure
    /\ Len(notes) = 4
    /\ draggedNoteId = 0
    /\ \A i \in 1..4 : notes[i].duration = "sixteenth"
    /\ LET f == activeMeasure.number = 1
       IN  \E k \in 0..12 :
              /\ notes[1].x = GridValue(f, k)
              /\ notes[2].x = GridValue(f, k + 1)
              /\ notes[4].x = GridValue(f, k + 3)
              /\ \E p \in (0..15) \ {k + 1, k + 2, k + 3} : notes[3].x = GridValue(f, p)

\* C7: after four sixteenth notes were placed at consecutive grid positions and
\* the third was dragged to a non-adjacent one, no re-derived beam group has both
\* the second and the fourth note as members.
C7_NoGroupAcrossVacated ==
    ThirdMovedAway =>
        \A g \in SeqToSet(groupNotesForBeaming(notes)) :
            ~({notes[2].id, notes[4].id} \subseteq GroupIds(g))

----------------------------------------------------------------------------
(* C11: connectors and adjacency in the x-sorted list *)

\* persisted notes plus ghost, sorted by x, as the connector pass sees them
SortedWithGhost ==
    LET placed == [i \in 1..Len(staff.notes) |-> XYD(staff.notes[i])]
    IN  SortByX(IF staff.ghostNote.none THEN placed
                ELSE Append(placed, XYD(staff.ghostNote)))

\* the connectors of a render whose right-hand end is the note at (x, y)
ConnectorsEndingAt(x, y) ==
    { k \in 1..Len(staff.durationConnectors) :
        staff.durationConnectors[k].x = x /\ staff.durationConnectors[k].y2 = y }

\* no two of the rendered notes (ghost included) share a position
DistinctPositions ==
    \A i, j \in 1..Len(SortedWithGhost) :
        i # j => <<SortedWithGhost[i].x, SortedWithGhost[i].y>>
                    # <<SortedWithGhost[j].x, SortedWithGhost[j].y>>

\* C11: every connector joins two notes adjacent in the x-sorted list of
\* persisted notes plus ghost, so every note is the right-hand end of at most
\* one connector and n notes give at most n-1 connectors (stated for notes at
\* pairwise distinct positions)
C11_ConnectorsJoinNeighbours ==
    (Rendered /\ DistinctPositions) =>
        LET all == SortedWithGhost
            n == Len(all)
        IN  /\ \A k \in 1..Len(staff.durationConnectors) :
                  \E i \in 2..n :
                      /\ staff.durationConnectors[k].x = all[i].x
                      /\ staff.durationConnectors[k].y2 = all[i].y
                      /\ staff.durationConnectors[k].y1 = all[i - 1].y
                      /\ staff.durationConnectors[k].color = DURATION_COLORS(all[i - 1].duration)
            /\ \A i \in 1..n : Cardinality(ConnectorsEndingAt(all[i].x, all[i].y)) <= 1
            /\ (n >= 1 => Len(staff.durationConnectors) <= n - 1)

----------------------------------------------------------------------------
(* StemDirectionResolver: stem direction of a note and of a beam group *)

MIDDLE_STAFF_LINE_Y == Px(400)

\* variant: the middle line itself counts as above
StemOfRatio_OnLineDown(num, den) ==
    IF num <= MIDDLE_STAFF_LINE_Y * den THEN "down" ELSE "up"

\* noteY < MIDDLE_STAFF_LINE_Y ? 'down' : 'up', for the coordinate num / den
StemOfRatio(num, den) ==
    IF num < MIDDLE_STAFF_LINE_Y * den THEN "down" ELSE "up"

calculateStemDirection(noteY) == StemOfRatio(noteY, 1)

\* notes.reduce((sum, note) => sum + note.y, 0)
RECURSIVE SumY(_)
SumY(ns) == IF ns = <<>> THEN 0 ELSE Head(ns).y + SumY(Tail(ns))

\* the average sum / length is kept as the exact fraction
calculateBeamGroupStemDirection(ns) ==
    IF Len(ns) = 0 THEN "up" ELSE StemOfRatio(SumY(ns), Len(ns))

\* reference coordinates: staff lines, two spaces, one ledger line each side
MaxStemGroup == 3
StemYs == { Px(175), Px(250), Px(325), Px(362) + HalfPx, Px(400),
            Px(437) + HalfPx, Px(475), Px(550), Px(625) }

StemInit ==
    /\ \/ \E y \in SeqToSet(SNAP_POINTS) :
             quant = [fn |-> "calculateStemDirection", arg |-> y,
                      isFirstMeasure |-> TRUE, out |-> <<>>]
       \/ \E n \in 0..MaxStemGroup : \E ys \in [1..n -> StemYs] :
             quant = [fn |-> "calculateBeamGroupStemDirection",
                      arg |-> [i \in 1..n |-> PlacedNote(i, TRUE, i - 1, ys[i], "eighth")],
                      isFirstMeasure |-> TRUE, out |-> <<>>]
    /\ staff = StaffIdle
    /\ UIInit

StemSingle ==
    /\ quant.fn = "calculateStemDirection"
    /\ quant.out = <<>>
    /\ quant' = [quant EXCEPT !.out = << calculateStemDirection(quant.arg) >>]
    /\ UNCHANGED <<staff, uiVars>>

StemGroup ==
    /\ quant.fn = "calculateBeamGroupStemDirection"
    /\ quant.out = <<>>
    /\ quant' = [quant EXCEPT !.out = << calculateBeamGroupStemDirection(quant.arg) >>]
    /\ UNCHANGED <<staff, uiVars>>

StemNext == StemSingle \/ StemGroup

SpecStem == StemInit /\ [][StemNext]_vars

\* C12: the stem is 'down' exactly when the reference coordinate (a note's
\* y, a non-empty group's mean y) is strictly less than 400, 'up' otherwise;
\* 400 gives 'up', 250 'down', 550 'up'
C12_StemDirection ==
    /\ (quant.fn = "calculateStemDirection" /\ quant.out # <<>>) =>
          /\ quant.arg < Px(400) => quant.out[1] = "down"
          /\ quant.arg >= Px(400) => quant.out[1] = "up"
          /\ quant.arg = Px(250) => quant.out[1] = "down"
          /\ quant.arg = Px(550) => quant.out[1] = "up"
    /\ (quant.fn = "calculateBeamGroupStemDirection" /\ quant.out # <<>>
        /\ Len(quant.arg) > 0) =>
          LET n == Len(quant.arg)
              \* n times the mean, compared with n times 400
              total == SumY(quant.arg)
          IN  /\ (\A i \in 1..n : quant.arg[i].y < Px(400)) => quant.out[1] = "down"
              /\ (\A i \in 1..n : quant.arg[i].y >= Px(400)) => quant.out[1] = "up"
              /\ quant.out[1] = (IF total - n * Px(400) < 0 THEN "down" ELSE "up")

\* a group whose members lie on both sides of the middle line and whose mean
\* is exactly 400
C12_Witness ==
    /\ quant.fn = "calculateBeamGroupStemDirection"
    /\ quant.out = << "up" >>
    /\ Len(quant.arg) = 2
    /\ quant.arg[1].y = Px(325)
    /\ quant.arg[2].y = Px(475)

----------------------------------------------------------------------------
(* LedgerLineGenerator: _NoteHead.tsx (its LINE_SPACING equals the staff's) *)

TOP_STAFF_LINE == Px(250)
BOTTOM_STAFF_LINE == Px(550)

\* variant: a line is drawn only once the note is half a space beyond it
RECURSIVE LedgerAbove_Beyond(_, _)
LedgerAbove_Beyond(ledgerY, y) ==
    IF ledgerY >= y + LINE_SPACING \div 2
    THEN << ledgerY >> \o LedgerAbove_Beyond(ledgerY - LINE_SPACING, y)
    ELSE <<>>

\* while (ledgerY >= y - LINE_SPACING / 2) { push(ledgerY); ledgerY -= LINE_SPACING }
RECURSIVE LedgerAbove(_, _)
LedgerAbove(ledgerY, y) ==
    IF ledgerY >= y - LINE_SPACING \div 2
    THEN << ledgerY >> \o LedgerAbove(ledgerY - LINE_SPACING, y)
    ELSE <<>>

\* while (ledgerY <= y + LINE_SPACING / 2) { push(ledgerY); ledgerY += LINE_SPACING }
RECURSIVE LedgerBelow(_, _)
LedgerBelow(ledgerY, y) ==
    IF ledgerY <= y + LINE_SPACING \div 2
    THEN << ledgerY >> \o LedgerBelow(ledgerY + LINE_SPACING, y)
    ELSE <<>>

calculateLedgerLines(y) ==
    (IF y < TOP_STAFF_LINE THEN LedgerAbove(TOP_STAFF_LINE - LINE_SPACING, y) ELSE <<>>)
    \o (IF y > BOTTOM_STAFF_LINE THEN LedgerBelow(BOTTOM_STAFF_LINE + LINE_SPACING, y) ELSE <<>>)

\* note coordinates: every half unit from MaxLedger ledger lines above the
\* staff to MaxLedger below it, and half a space more
MaxLedger == 4
LedgerYs ==
    { j * HalfPx :
        j \in (2 * (175 - 75 * MaxLedger)) .. (2 * (625 + 75 * MaxLedger)) }

LedgerInit ==
    /\ \E y \in LedgerYs :
          quant = [fn |-> "calculateLedgerLines", arg |-> y,
                   isFirstMeasure |-> TRUE, out |-> <<>>]
    /\ staff = StaffIdle
    /\ UIInit

\* const ledgerLines = calculateLedgerLines(y); the result is kept as out[1]
LedgerCall ==
    /\ quant.fn = "calculateLedgerLines"
    /\ quant.out = <<>>
    /\ quant' = [quant EXCEPT !.out = << calculateLedgerLines(quant.arg) >>]
    /\ UNCHANGED <<staff, uiVars>>

LedgerNext == LedgerCall

SpecLedger == LedgerInit /\ [][LedgerNext]_vars

\* C13: a note on the k-th ledger line above the staff (y = 250 - 75k) gets
\* exactly the k coordinates 250-75, ..., 250-75k in that order, a note at
\* y = 550 + 75k exactly 550+75, ..., 550+75k, and a note with
\* 250 <= y <= 550 gets none
C13_LedgerLines ==
    (quant.fn = "calculateLedgerLines" /\ quant.out # <<>>) =>
        /\ \A k \in 1..(MaxLedger + 1) :
              /\ quant.arg = Px(250 - 75 * k) =>
                    quant.out[1] = [i \in 1..k |-> Px(250 - 75 * i)]
              /\ quant.arg = Px(550 + 75 * k) =>
                    quant.out[1] = [i \in 1..k |-> Px(550 + 75 * i)]
        /\ (Px(250) <= quant.arg /\ quant.arg <= Px(550)) => quant.out[1] = <<>>
        /\ quant.arg = Px(100) => quant.out[1] = << Px(175), Px(100) >>

\* the note on the second ledger line above the staff
C13_Witness ==
    /\ quant.fn = "calculateLedgerLines"
    /\ quant.arg = Px(100)
    /\ quant.out = << << Px(175), Px(100) >> >>

----------------------------------------------------------------------------
(* C14: a render whose first note carries a duration outside the known five *)

UnknownDurations == { "thirtysecond" }

FallbackInit ==
    /\ \E f \in BOOLEAN, k1 \in 0..15, k2 \in 0..15, y1 \in ProbeYs, y2 \in ProbeYs,
          d1 \in UnknownDurations, d2 \in ListDurations :
          StaffStart(f, [notes |-> << PlacedNote(1, f, k1, y1, d1),
                                      PlacedNote(2, f, k2, y2, d2) >>,
                         ghostNote |-> NoGhost])
    /\ quant = QuantIdle
    /\ UIInit

SpecFallback == FallbackInit /\ [][StaffNext]_vars

\* C14: when the left note of a pair has an unrecognised duration the
\* expected distance is 4 grid steps (the quarter-note span): with the left
\* note on the first grid value and the right note at another y, the pair is
\* connected exactly when it is 4 steps apart
C14_UnknownDurationSpanFour ==
    ( /\ TwoNotes
      /\ LeftNote.duration \notin Durations
      /\ LeftNote.x = GridValue(staff.isFirstMeasure, 0)
      /\ LeftNote.y # RightNote.y )
    => ( Len(staff.durationConnectors) = 1
         <=> RightNote.x - LeftNote.x = 4 * GridStep(staff.isFirstMeasure) )

----------------------------------------------------------------------------
(* C15: the measure list under the context's addMeasure and deleteMeasure *)

MaxMeasureId == 8

\* addMeasure(trackId, timeSignature): generateId, then the append
CallAddMeasure ==
    /\ idCounter < MaxMeasureId
    /\ idCounter' = idCounter + 1
    /\ measures' = addMeasure(measures, idCounter + 1)
    /\ UNCHANGED <<activeMeasureId, selectedDuration, ghostNote, draggedNoteId,
                   hoveredNoteId, quant, staff>>

\* deleteMeasure(trackId, measureId), for any measure of the track
CallDeleteMeasure(id) ==
    /\ measures' = deleteMeasure(measures, id)
    /\ activeMeasureId' = IF activeMeasureId = id THEN 0 ELSE activeMeasureId
    /\ UNCHANGED <<idCounter, selectedDuration, ghostNote, draggedNoteId,
                   hoveredNoteId, quant, staff>>

MeasuresNext ==
    \/ CallAddMeasure
    \/ \E i \in 1..Len(measures) : CallDeleteMeasure(measures[i].id)

SpecMeasures == Init /\ [][MeasuresNext]_vars

\* C15: after any sequence of addMeasure and deleteMeasure calls the
\* measures' numbers are exactly 1, 2, ..., n in list order
C15_MeasureNumbersContiguous ==
    \A i \in 1..Len(measures) : measures[i].number = i

\* three measures were added and the first and third of the four deleted
C15_Witness ==
    /\ Len(measures) = 2
    /\ measures[1].id = 4 /\ measures[1].number = 1
    /\ measures[2].id = 6 /\ measures[2].number = 2

----------------------------------------------------------------------------
(* C16: a drag across the edges of the plottable region *)

\* raw pointer positions on, just inside and just outside every edge
EdgeRawXs == { Px(40) - 1, Px(40), Px(240) - 1, Px(240), Px(760), Px(760) + 1 }
EdgeRawYs == { Px(12) - 1, Px(12), Px(788), Px(788) + 1 }

\* the state after placing a quarter and an eighth note in the active measure
\* (the first, or a second one inserted after one note was placed in the first)
EdgeInit ==
    /\ quant = QuantIdle
    /\ staff = StaffIdle
    /\ selectedDuration = "eighth"
    /\ draggedNoteId = 0
    /\ hoveredNoteId = 0
    /\ \E f \in BOOLEAN :
          LET base == IF f THEN 3 ELSE 5
              placed == << PlacedNote(base + 1, f, 2, Px(400), "quarter"),
                           PlacedNote(base + 2, f, 6, Px(250), "eighth") >>
          IN  /\ measures =
                    IF f THEN << [id |-> 1, number |-> 1, notes |-> placed] >>
                    ELSE << [id |-> 1, number |-> 1,
                             notes |-> << PlacedNote(4, TRUE, 0, Px(400), "quarter") >>],
                            [id |-> 5, number |-> 2, notes |-> placed] >>
              /\ activeMeasureId = IF f THEN 1 ELSE 5
              /\ idCounter = base + 2
              /\ ghostNote = Ghost(placed[2].x, placed[2].y, "eighth")

EdgeNext ==
    \/ \E i \in 1..Len(notes) : handleNotePointerDown(notes[i].id) /\ UNCHANGED <<quant, staff>>
    \/ \E x \in EdgeRawXs, y \in EdgeRawYs :
          handlePointerMove([x |-> x, y |-> y]) /\ UNCHANGED <<quant, staff>>
    \/ handlePointerDown /\ UNCHANGED <<quant, staff>>
    \/ handlePointerLeave /\ UNCHANGED <<quant, staff>>

SpecEdge == EdgeInit /\ [][EdgeNext]_vars

\* the measures other than the active one
OtherMeasures(ms) == SelectSeq(ms, LAMBDA m : m.id # activeMeasureId)

----------------------------------------------------------------------------
(* C17: what a step may change of a persisted note *)

\* the persisted notes of all measures, before and after a step
NoteSet(ms) ==
    UNION { { ms[i].notes[k] : k \in 1..Len(ms[i].notes) } : i \in 1..Len(ms) }

\* how many notes each measure holds
NoteCounts(ms) == [i \in 1..Len(ms) |-> Len(ms[i].notes)]

\* C17: a persisted note keeps its duration (and its id) for as long as it
\* exists, and its (x, y) changes only in the pointer-release that ends a drag
\* of that same note; that step moves no other note and keeps the note count
C17_NoteFrame ==
    [][ \A a \in NoteSet(measures) : \A b \in NoteSet(measures') :
            (a.id = b.id) =>
                /\ b.duration = a.duration
                /\ (<<b.x, b.y>> # <<a.x, a.y>>) =>
                      /\ draggedNoteId = a.id
                      /\ ghostNote # NoGhost
                      /\ handlePointerDown
                      /\ draggedNoteId' = 0
                      /\ <<b.x, b.y>> = <<ghostNote.x, ghostNote.y>>
                      /\ NoteCounts(measures') = NoteCounts(measures)
                      /\ \A c \in NoteSet(measures) : \A d \in NoteSet(measures') :
                            (c.id = d.id /\ c.id # a.id) => <<d.x, d.y>> = <<c.x, c.y>>
      ]_vars

\* the third of the four notes of the first measure has been dragged to the
\* grid value nearest to x = 510 and released; the others are where they were
C17_Witness ==
    /\ Len(measures) = 1
    /\ Len(measures[1].notes) = 4
    /\ draggedNoteId = 0
    /\ measures[1].notes[1].x = GridValue(TRUE, 0)
    /\ measures[1].notes[2].x = GridValue(TRUE, 1)
    /\ measures[1].notes[3].x = snapToGrid(Px(510), TRUE)
    /\ measures[1].notes[4].x = GridValue(TRUE, 3)

----------------------------------------------------------------------------
(* C18: the ladder entry snapToStaff picks *)

\* C18: snapToStaff clamps y to [12, 788] and returns a ladder entry that no
\* other entry beats in distance to the clamped value; of two equidistant
\* entries it returns the one with the smaller coordinate
C18_SnapToStaffNearestTieUp ==
    (quant.fn = "snapToStaff" /\ quant.out # <<>>) =>
        LET clamped == IF quant.arg < Px(12) THEN Px(12)
                       ELSE IF quant.arg > Px(788) THEN Px(788) ELSE quant.arg
            r == quant.out[1]
        IN  /\ r \in SeqToSet(SNAP_POINTS)
            /\ \A p \in SeqToSet(SNAP_POINTS) :
                  /\ Abs(r - clamped) <= Abs(p - clamped)
                  /\ (Abs(p - clamped) = Abs(r - clamped)) => r <= p

\* y = 268.75 is as far from the line 250 as from the space 287.5: the line
\* is returned
C18_Witness ==
    /\ quant.fn = "snapToStaff"
    /\ quant.arg = Px(268) + 9
    /\ 2 * quant.arg = Px(250) + Px(287) + HalfPx
    /\ quant.out # <<>>
    /\ quant.out[1] = Px(250)

----------------------------------------------------------------------------
(* C19: the shape of every beam group of a render *)

\* C19: every beam group has at least 2 members, all of them eighth or
\* sixteenth notes, in non-decreasing x order, each at most 70 units after
\* the member before it
C19_BeamGroupsWellFormed ==
    Rendered =>
        \A g \in 1..Len(staff.beamGroups) :
            LET group == staff.beamGroups[g]
            IN  /\ Len(group) >= 2
                /\ \A k \in 1..Len(group) : group[k].duration \in {"eighth", "sixteenth"}
                /\ \A k \in 1..(Len(group) - 1) :
                      /\ group[k].x <= group[k + 1].x
                      /\ group[k + 1].x - group[k].x <= Px(70)

\* three sixteenth notes of a later measure, one of them 96 units from its
\* neighbour: one group of two and one unbeamed note
C19_Witness ==
    /\ Rendered /\ ~staff.isFirstMeasure
    /\ Len(staff.notes) = 3
    /\ \A i \in 1..3 : staff.notes[i].duration = "sixteenth"
    /\ Len(staff.beamGroups) = 1
    /\ Len(staff.beamGroups[1]) = 2
    /\ Len(staff.unbeamedNotes) = 1

----------------------------------------------------------------------------
(* BeamGroup: the secondary beam lines of one group, _BeamGroup.tsx *)

STEM_OFFSET == Px(24)
BEAM_EXTENSION == Px(3)

\* the line a sixteenth member contributes in a mixed group: a segment to the
\* next member when that is a sixteenth too (key beam2-), else a partial
\* (key partial-) that starts and ends at the member's own stem
PartialBeam(ns, index, stemDirection) ==
    LET note == ns[index]
        noteX == IF stemDirection = "up" THEN note.x + STEM_OFFSET ELSE note.x - STEM_OFFSET
    IN  IF note.duration # "sixteenth" THEN <<>>
        ELSE IF index + 1 <= Len(ns) /\ ns[index + 1].duration = "sixteenth"
        THEN LET nextNote == ns[index + 1]
                 nextX == IF stemDirection = "up" THEN nextNote.x + STEM_OFFSET
                          ELSE nextNote.x - STEM_OFFSET
             IN  << [key |-> "beam2", at |-> index, x1 |-> noteX, x2 |-> nextX] >>
        ELSE << [key |-> "partial", at |-> index, x1 |-> noteX, x2 |-> noteX] >>

\* notes.map((note, index) => ...) without the nulls
RECURSIVE PartialBeams(_, _, _)
PartialBeams(ns, index, stemDirection) ==
    IF index > Len(ns) THEN <<>>
    ELSE PartialBeam(ns, index, stemDirection) \o PartialBeams(ns, index + 1, stemDirection)

\* the lines BeamGroup draws on the second rail (the primary beam is left out)
BeamGroup(ns, stemDirection) ==
    IF Len(ns) < 2 THEN <<>>
    ELSE LET firstNote == ns[1]
             lastNote == ns[Len(ns)]
             startX == IF stemDirection = "up" THEN firstNote.x + STEM_OFFSET - BEAM_EXTENSION
                       ELSE firstNote.x - STEM_OFFSET - BEAM_EXTENSION
             endX == IF stemDirection = "up" THEN lastNote.x + STEM_OFFSET + BEAM_EXTENSION
                     ELSE lastNote.x - STEM_OFFSET + BEAM_EXTENSION
             hasSixteenth == \E i \in 1..Len(ns) : ns[i].duration = "sixteenth"
             allSixteenth == \A i \in 1..Len(ns) : ns[i].duration = "sixteenth"
         IN  IF hasSixteenth /\ allSixteenth
             THEN << [key |-> "secondary", at |-> 1, x1 |-> startX, x2 |-> endX] >>
             ELSE IF hasSixteenth /\ ~allSixteenth
             THEN PartialBeams(ns, 1, stemDirection)
             ELSE <<>>

\* groups of up to MaxBeamNotes eighth and sixteenth notes on successive grid values
MaxBeamNotes == 4

BeamInit ==
    /\ \E f \in BOOLEAN, dir \in {"up", "down"}, n \in 0..MaxBeamNotes :
          \E ds \in [1..n -> {"eighth", "sixteenth"}] :
             quant = [fn |-> "BeamGroup",
                      arg |-> [i \in 1..n |-> PlacedNote(i, f, i - 1, Px(250), ds[i])],
                      stemDirection |-> dir,
                      isFirstMeasure |-> f, out |-> <<>>]
    /\ staff = StaffIdle
    /\ UIInit

\* one render of <BeamGroup notes=... stemDirection=... />
BeamRender ==
    /\ quant.fn = "BeamGroup"
    /\ quant.out = <<>>
    /\ quant' = [quant EXCEPT !.out = << BeamGroup(quant.arg, quant.stemDirection) >>]
    /\ UNCHANGED <<staff, uiVars>>

BeamNext == BeamRender

SpecBeam == BeamInit /\ [][BeamNext]_vars

\* C20: in a group of eighth and sixteenth notes mixed, a full second-rail
\* segment runs between two members exactly when they are consecutive and both
\* sixteenth, and a stub is drawn only at a sixteenth whose preceding and
\* following members are both not sixteenth; a group of sixteenths only has
\* one full second rail and no stub
C20_SecondaryBeams ==
    (quant.fn = "BeamGroup" /\ quant.out # <<>> /\ Len(quant.arg) >= 2) =>
        LET ns == quant.arg
            lines == quant.out[1]
            IsSixteenth(i) == i \in 1..Len(ns) /\ ns[i].duration = "sixteenth"
            mixed == (\E i \in 1..Len(ns) : IsSixteenth(i)) /\ (\E i \in 1..Len(ns) : ~IsSixteenth(i))
            uniform == \A i \in 1..Len(ns) : IsSixteenth(i)
        IN  /\ mixed =>
                /\ \A i \in 1..(Len(ns) - 1) :
                      (IsSixteenth(i) /\ IsSixteenth(i + 1))
                      <=> (\E k \in 1..Len(lines) : lines[k].key = "beam2" /\ lines[k].at = i)
                /\ \A k \in 1..Len(lines) :
                      lines[k].key = "partial" =>
                          /\ IsSixteenth(lines[k].at)
                          /\ ~IsSixteenth(lines[k].at - 1)
                          /\ ~IsSixteenth(lines[k].at + 1)
            /\ uniform =>
                /\ Len(lines) = 1
                /\ lines[1].key = "secondary"

----------------------------------------------------------------------------
(* C21: the drawn segment of a connector *)

\* C21: the drawn segment of every connector is inset at both ends: each drawn
\* endpoint lies strictly between the two notes' y, so the segment is shorter
\* than |y1 - y2| whichever note is higher
C21_ConnectorInset ==
    Rendered =>
        \A k \in 1..Len(staff.connectorLines) :
            LET line == staff.connectorLines[k]
                c == staff.durationConnectors[line.index]
                lo == Min2(c.y1, c.y2)
                hi == Max2(c.y1, c.y2)
            IN  /\ lo < line.y1 /\ line.y1 < hi
                /\ lo < line.y2 /\ line.y2 < hi
                /\ Abs(line.y1 - line.y2) < Abs(c.y1 - c.y2)

----------------------------------------------------------------------------
(* C22: the one-decimal comparison on grid distances *)

\* two grid indices of one measure and the duration of the left note
ToleranceInit ==
    /\ \E f \in BOOLEAN, k1 \in 0..14, d \in Durations :
          \E k2 \in (k1 + 1)..15 :
             quant = [fn |-> "compare", arg |-> <<k1, k2>>, duration |-> d,
                      isFirstMeasure |-> f, out |-> <<>>]
    /\ staff = StaffIdle
    /\ UIInit

\* actualRounded and expectedRounded of one pair, with the measure's own step
ToleranceCompare ==
    /\ quant.fn = "compare"
    /\ quant.out = <<>>
    /\ LET previousX == GridX(quant.isFirstMeasure, quant.arg[1])
           currentX == GridX(quant.isFirstMeasure, quant.arg[2])
           actualDistance == currentX - previousX
           stepSize == StepSize(quant.isFirstMeasure)
           expectedDistance == (StepsInDurationX4(quant.duration) * stepSize) \div 4
       IN  quant' = [quant EXCEPT
                        !.out = << RoundToTenth(actualDistance), RoundToTenth(expectedDistance) >>]
    /\ UNCHANGED <<staff, uiVars>>

ToleranceNext == ToleranceCompare

SpecTolerance == ToleranceInit /\ [][ToleranceNext]_vars

\* C22: for both step widths, every grid-index difference d in 1..15 and every
\* span s in {1, 2, 4, 8, 15}, the two gaps rounded to one decimal are equal
\* exactly when d = s
C22_ToleranceIsExact ==
    (quant.fn = "compare" /\ quant.out # <<>>) =>
        ( quant.out[1] = quant.out[2]
          <=> quant.arg[2] - quant.arg[1] = StepSpan(quant.duration) )

\* a half note of the first measure and a note 8 steps later: both gaps round
\* to 277.3
C22_Witness ==
    /\ quant.fn = "compare"
    /\ quant.isFirstMeasure
    /\ quant.duration = "half"
    /\ quant.arg = <<3, 11>>
    /\ quant.out = << 2773, 2773 >>

----------------------------------------------------------------------------
(* C23: positions of the notes of one measure *)

\* C23: in every reachable state no two distinct notes of one measure have
\* the same (x, y); releasing a dragged note never puts it where another
\* note is
C23_NoSharedPosition ==
    \A m \in 1..Len(measures) :
        \A i, j \in 1..Len(measures[m].notes) :
            i # j => <<measures[m].notes[i].x, measures[m].notes[i].y>>
                        # <<measures[m].notes[j].x, measures[m].notes[j].y>>

----------------------------------------------------------------------------
(* C24: one drag gesture from pointer-down on a note to the pointer-release *)

GestureRawXs == { Px(230), Px(300), Px(500), Px(770) }
GestureRawYs == { Px(5), Px(250), Px(420), Px(800) }

\* where the gesture stands; expected is the note list right after the
\* dragged note was deleted
GestureIdle == [fn |-> "gesture", phase |-> "idle", expected |-> <<>>]

\* the state after one quarter note was placed in the first measure
GestureInit ==
    /\ quant = GestureIdle
    /\ staff = StaffIdle
    /\ measures = << [id |-> 1, number |-> 1,
                      notes |-> << PlacedNote(4, TRUE, 2, Px(400), "quarter") >>] >>
    /\ activeMeasureId = 1
    /\ idCounter = 4
    /\ selectedDuration = "quarter"
    /\ ghostNote = Ghost(GridX(TRUE, 2), Px(400), "quarter")
    /\ draggedNoteId = 0
    /\ hoveredNoteId = 0

\* pointer-down on a note: the gesture starts
GestureNotePointerDown ==
    /\ quant.phase \in {"idle", "released"}
    /\ \E i \in 1..Len(notes) : handleNotePointerDown(notes[i].id)
    /\ quant' = [GestureIdle EXCEPT !.phase = "dragging"]
    /\ UNCHANGED staff

\* pointer-move; the move that deletes the dragged note is remembered
GesturePointerMove ==
    /\ \E x \in GestureRawXs, y \in GestureRawYs : handlePointerMove([x |-> x, y |-> y])
    /\ quant' = IF quant.phase = "dragging" /\ measures' # measures
                THEN [quant EXCEPT !.phase = "deleted",
                                   !.expected = measures'[findIndex(measures', activeMeasureId)].notes]
                ELSE IF quant.phase = "released" THEN GestureIdle
                ELSE quant
    /\ UNCHANGED staff

\* pointer-release: the gesture ends
GesturePointerUp ==
    /\ handlePointerDown
    /\ quant' = IF quant.phase = "deleted" THEN [quant EXCEPT !.phase = "released"]
                ELSE GestureIdle
    /\ UNCHANGED staff

GestureNext == GestureNotePointerDown \/ GesturePointerMove \/ GesturePointerUp

SpecGesture == GestureInit /\ [][GestureNext]_vars

\* C24: when the pointer is released after the dragged note was deleted by a
\* move outside the plottable region, the active measure holds exactly the
\* notes it held right after the deletion: the release creates no note
C24_NothingAddedAfterDragDelete ==
    (quant.fn = "gesture" /\ quant.phase = "released" /\ HasActiveMeasure) =>
        SeqToSet(notes) = SeqToSet(quant.expected)

----------------------------------------------------------------------------
(* C25: the active Staff re-rendered after every step of a drag *)

PreviewRawXs == { Px(232), Px(379), Px(600) }
PreviewRawYs == { Px(250), Px(400) }

\* what the active measure's Staff derives from notes and ghostNote
StaffOf(f, ns, ghost) ==
    LET beamGroups == groupNotesForBeaming(ns)
        durationConnectors == calculateDurationConnectors(ns, ghost)
    IN  [phase |-> "rendered", isFirstMeasure |-> f, notes |-> ns, ghostNote |-> ghost,
         beamGroups |-> beamGroups,
         unbeamedNotes |-> getUnbeamedNotes(ns, beamGroups),
         durationConnectors |-> durationConnectors,
         connectorLines |-> ConnectorLines(durationConnectors, 1)]

\* <Staff notes={measure.notes} ghostNote={ghostNote} ... /> of the active measure
RenderActive == staff' = StaffOf(activeMeasure'.number = 1, notes', ghostNote')

\* the state after one quarter note was placed on the first grid value of the
\* active measure (the first, or a second one inserted before)
PreviewInit ==
    /\ quant = QuantIdle
    /\ selectedDuration = "quarter"
    /\ draggedNoteId = 0
    /\ hoveredNoteId = 0
    /\ \E f \in BOOLEAN :
          LET base == IF f THEN 3 ELSE 4
              placed == << PlacedNote(base + 1, f, 0, Px(400), "quarter") >>
          IN  /\ measures = IF f THEN << [id |-> 1, number |-> 1, notes |-> placed] >>
                            ELSE << [id |-> 1, number |-> 1, notes |-> <<>>],
                                    [id |-> 4, number |-> 2, notes |-> placed] >>
              /\ activeMeasureId = IF f THEN 1 ELSE 4
              /\ idCounter = base + 1
              /\ ghostNote = Ghost(placed[1].x, placed[1].y, "quarter")
              /\ staff = StaffOf(f, placed, ghostNote)

PreviewNext ==
    \/ (\E i \in 1..Len(notes) : handleNotePointerEnter(notes[i].id))
          /\ RenderActive /\ UNCHANGED quant
    \/ (\E i \in 1..Len(notes) : handleNotePointerDown(notes[i].id))
          /\ RenderActive /\ UNCHANGED quant
    \/ (\E x \in PreviewRawXs, y \in PreviewRawYs : handlePointerMove([x |-> x, y |-> y]))
          /\ RenderActive /\ UNCHANGED quant
    \/ handlePointerDown /\ RenderActive /\ UNCHANGED quant
    \/ handlePointerLeave /\ RenderActive /\ UNCHANGED quant

SpecPreview == PreviewInit /\ [][PreviewNext]_vars

\* C25: while a note is dragged the connector pass counts it once, at its
\* preview position: when the dragged note is the only note of the measure no
\* connector is drawn, neither between its stored position and its own
\* preview nor from or to the stored position
C25_DraggedNoteCountedOnce ==
    ( /\ HasActiveMeasure
      /\ draggedNoteId # 0
      /\ ghostNote # NoGhost
      /\ Len(notes) = 1
      /\ notes[1].id = draggedNoteId )
    => staff.durationConnectors = <<>>

----------------------------------------------------------------------------
(* C26: beam groups and unbeamed notes together *)

\* how often the note with this id occurs in a list
Occurrences(ns, id) == Cardinality({ k \in 1..Len(ns) : ns[k].id = id })

\* how often it occurs as a member of the first g groups
RECURSIVE GroupOccurrences(_, _, _)
GroupOccurrences(groups, g, id) ==
    IF g = 0 THEN 0
    ELSE Occurrences(groups[g], id) + GroupOccurrences(groups, g - 1, id)

\* C26: for notes with pairwise distinct ids, every note is a member of
\* exactly one beam group or occurs exactly once among the unbeamed notes,
\* never both and never neither, and nothing else occurs in either
C26_BeamPartition ==
    Rendered =>
        /\ \A i \in 1..Len(staff.notes) :
              GroupOccurrences(staff.beamGroups, Len(staff.beamGroups), staff.notes[i].id)
                + Occurrences(staff.unbeamedNotes, staff.notes[i].id) = 1
        /\ SeqToSet(staff.unbeamedNotes) \subseteq SeqToSet(staff.notes)
        /\ \A g \in 1..Len(staff.beamGroups) :
              SeqToSet(staff.beamGroups[g]) \subseteq SeqToSet(staff.notes)

\* two eighth notes one step apart and a quarter note: a group of two and
\* the quarter note unbeamed
C26_Witness ==
    /\ Rendered
    /\ Len(staff.notes) = 3
    /\ Len(staff.beamGroups) = 1
    /\ Len(staff.beamGroups[1]) = 2
    /\ \A k \in 1..2 : staff.beamGroups[1][k].duration = "eighth"
    /\ Len(staff.unbeamedNotes) = 1
    /\ staff.unbeamedNotes[1].duration = "quarter"

----------------------------------------------------------------------------
(* C27: ledger lines of notes on the ladder *)

\* C27: for every ladder position outside the staff, space positions
\* included, no ledger line is farther from the staff than the note: every
\* line L has y <= L < 250 for a note above, 550 < L <= y for a note below
C27_LedgerLinesNeeded ==
    ( /\ quant.fn = "calculateLedgerLines"
      /\ quant.out # <<>>
      /\ quant.arg \in SeqToSet(SNAP_POINTS) )
    => \A k \in 1..Len(quant.out[1]) :
          LET L == quant.out[1][k]
          IN  /\ quant.arg < Px(250) => (quant.arg <= L /\ L < Px(250))
              /\ quant.arg > Px(550) => (Px(550) < L /\ L <= quant.arg)

----------------------------------------------------------------------------
(* C28: the duration indicator of a note head and the connector distance *)

\* BEAT_DURATIONS[duration], in quarters of a beat
BeatDurationX4(duration) ==
    CASE duration = "whole" -> 4 * 4
      [] duration = "half" -> 2 * 4
      [] duration = "quarter" -> 1 * 4
      [] duration = "eighth" -> 2
      [] duration = "sixteenth" -> 1

\* stepSize * 4: 4 grid steps per beat
calculateBeatWidth(measureNumber) ==
    LET isFirst == measureNumber = 1
        minX == getMinX(isFirst)
        maxX == getMaxX
        stepSize == (maxX - minX) \div 15
    IN  stepSize * 4

\* a note head on grid value k of measure 1 or 2, any duration
TablesInit ==
    /\ \E number \in {1, 2}, k \in 0..15, d \in Durations :
          quant = [fn |-> "indicator", arg |-> GridX(number = 1, k), duration |-> d,
                   measureNumber |-> number, isFirstMeasure |-> number = 1, out |-> <<>>]
    /\ staff = StaffIdle
    /\ UIInit

\* the indicator of the note head (its length before the clamp, and the
\* clamped end) next to the distance the connector pass expects after it
TablesRender ==
    /\ quant.fn = "indicator"
    /\ quant.out = <<>>
    /\ LET beatWidth == calculateBeatWidth(quant.measureNumber)
           length == (BeatDurationX4(quant.duration) * beatWidth) \div 4
           durationLineEndX == Min2(quant.arg + length, getMaxX)
           stepSize == StepSize(quant.isFirstMeasure)
           expectedDistance == (StepsInDurationX4(quant.duration) * stepSize) \div 4
       IN  quant' = [quant EXCEPT !.out = << length, expectedDistance, durationLineEndX >>]
    /\ UNCHANGED <<staff, uiVars>>

TablesNext == TablesRender

SpecTables == TablesInit /\ [][TablesNext]_vars

\* C28: for every duration the length of the duration indicator before the
\* clamp (beat span times beat width) equals the distance the connector pass
\* expects (grid-step span times step width)
C28_TablesAgree ==
    (quant.fn = "indicator" /\ quant.out # <<>>) => quant.out[1] = quant.out[2]

----------------------------------------------------------------------------
(* C29: the active measure under navigation, insertion and deletion *)

MeasureIds(ms) == { ms[i].id : i \in 1..Len(ms) }

\* C29: the active measure id is never null and always names a measure of
\* the track; the measure numbered 1 is never deleted; deleting the active
\* measure makes the measure before it the active one
C29_ActiveMeasureExists ==
    /\ [](/\ activeMeasureId # 0
          /\ activeMeasureId \in MeasureIds(measures)
          /\ Len(measures) >= 1
          /\ measures[1].id = 1 /\ measures[1].number = 1)
    /\ [][ (MeasureIds(measures') # MeasureIds(measures)
            /\ MeasureIds(measures') \subseteq MeasureIds(measures)) =>
              LET currentIndex == findIndex(measures, activeMeasureId)
              IN  /\ MeasureIds(measures') = MeasureIds(measures) \ {activeMeasureId}
                  /\ currentIndex > 1
                  /\ activeMeasureId' = measures[currentIndex - 1].id
       ]_vars

\* two measures were inserted and the first of them deleted while active:
\* the first measure is active again and the second inserted one follows it
C29_Witness ==
    /\ Len(measures) = 2
    /\ measures[1].id = 1
    /\ measures[2].id = 5 /\ measures[2].number = 2
    /\ activeMeasureId = 1
    /\ idCounter = 5

----------------------------------------------------------------------------
(* NoteRotary: the frame loop that samples the rendered note positions *)

MAX_FRAMES == 60

\* the effect runs once per value of activeMeasure; runs are capped here
MaxEffects == 2

\* what the DOM can report: an x per rendered note element, keyed by note
\* id; the empty map also stands for a missing slide, container or svg
RotaryIds == {1, 2}
RotaryXs == {100, 200}
RotaryMaps == UNION { [S -> RotaryXs] : S \in SUBSET RotaryIds }

\* the shallow comparison of computePositions: key counts, then every key
\* of next against prev (a key prev lacks reads as undefined)
PositionsChanged(prev, next) ==
    IF Cardinality(DOMAIN prev) # Cardinality(DOMAIN next)
    THEN TRUE
    ELSE \E k \in DOMAIN next : k \notin DOMAIN prev \/ prev[k] # next[k]

\* variant: three unchanged frames are needed
stopBecauseStable_Three(unchangedFrames) == unchangedFrames >= 3

stopBecauseStable(unchangedFrames) == unchangedFrames >= 2

stopBecauseCap(frameCount) == frameCount >= MAX_FRAMES

\* requestAnimationFrame hands out a fresh non-zero handle per request
RafHandle(effects, frameCount) == (effects - 1) * (MAX_FRAMES + 1) + frameCount + 1

\* computePositions: positionsRef and the positions state follow the DOM
\* only when the comparison reports a change
ComputePositions(r, next) ==
    IF PositionsChanged(r.positionsRef, next)
    THEN [r EXCEPT !.positionsRef = next, !.positions = next]
    ELSE r

\* the effect body: computePositions(), then scheduleRafCompute() with
\* fresh counters and the first frame requested
RunEffect(r, next, effects) ==
    [ComputePositions(r, next) EXCEPT
        !.effects = effects, !.frameCount = 0, !.unchangedFrames = 0,
        !.rafRef = RafHandle(effects, 0), !.pending = TRUE]

\* the component after its first effect, refs at their initial values
RotaryInit ==
    /\ \E next \in RotaryMaps :
          quant = RunEffect([fn |-> "rotary", arg |-> 0, isFirstMeasure |-> TRUE,
                             out |-> <<>>, mounted |-> TRUE, effects |-> 0,
                             frameCount |-> 0, unchangedFrames |-> 0, rafRef |-> 0,
                             pending |-> FALSE, positionsRef |-> <<>>,
                             positions |-> <<>>], next, 1)
    /\ staff = StaffIdle
    /\ UIInit

\* one animation frame: the callback `loop`
RotaryLoop ==
    /\ quant.fn = "rotary"
    /\ quant.pending
    /\ \E next \in RotaryMaps :
          LET frameCount == quant.frameCount + 1
              changed == PositionsChanged(quant.positionsRef, next)
              unchangedFrames == IF ~changed THEN quant.unchangedFrames + 1 ELSE 0
              stop == stopBecauseStable(unchangedFrames) \/ stopBecauseCap(frameCount)
          IN  quant' = [ComputePositions(quant, next) EXCEPT
                           !.frameCount = frameCount,
                           !.unchangedFrames = unchangedFrames,
                           !.rafRef = IF ~stop THEN RafHandle(quant.effects, frameCount) ELSE 0,
                           !.pending = ~stop]
    /\ UNCHANGED <<staff, uiVars>>

\* the resize listener calls computePositions outside the loop
RotaryResize ==
    /\ quant.fn = "rotary"
    /\ quant.mounted
    /\ \E next \in RotaryMaps : quant' = ComputePositions(quant, next)
    /\ UNCHANGED <<staff, uiVars>>

\* activeMeasure changed: the cleanup cancels a requested frame, then the
\* effect runs again
RotaryEffect ==
    /\ quant.fn = "rotary"
    /\ quant.mounted
    /\ quant.effects < MaxEffects
    /\ \E next \in RotaryMaps : quant' = RunEffect(quant, next, quant.effects + 1)
    /\ UNCHANGED <<staff, uiVars>>

\* unmount: the cleanup cancels a requested frame and leaves rafRef as is
RotaryUnmount ==
    /\ quant.fn = "rotary"
    /\ quant.mounted
    /\ quant' = [quant EXCEPT !.mounted = FALSE, !.pending = FALSE]
    /\ UNCHANGED <<staff, uiVars>>

RotaryNext == RotaryLoop \/ RotaryResize \/ RotaryEffect \/ RotaryUnmount

SpecRotary == RotaryInit /\ [][RotaryNext]_vars

\* the browser runs every requested frame callback
SpecRotaryFair == SpecRotary /\ WF_vars(RotaryLoop)

\* C30: the frame loop always terminates: a frame that is the second
\* unchanged one in a row, or the 60th, requests no further frame and nulls
\* rafRef; any other frame requests the next one; the frame count never
\* passes 60, and a requested frame is always followed by a state with none
C30_LoopTerminates ==
    /\ [](quant.fn = "rotary" =>
             /\ quant.frameCount <= MAX_FRAMES
             /\ quant.pending => quant.rafRef # 0
             /\ (quant.mounted /\ ~quant.pending) =>
                    /\ quant.rafRef = 0
                    /\ quant.unchangedFrames >= 2 \/ quant.frameCount >= MAX_FRAMES)
    /\ [][ (quant.fn = "rotary" /\ quant'.frameCount = quant.frameCount + 1) =>
              LET secondUnchanged == /\ quant.unchangedFrames >= 1
                                     /\ quant'.positionsRef = quant.positionsRef
                  last == quant'.frameCount >= 60
              IN  IF secondUnchanged \/ last
                  THEN quant'.rafRef = 0 /\ ~quant'.pending
                  ELSE quant'.rafRef # 0 /\ quant'.pending
       ]_vars
    /\ (quant.fn = "rotary" /\ quant.pending) ~> ~quant.pending

\* the loop ran into the cap: 60 frames, the last of them a changed one
C30_Witness ==
    /\ quant.fn = "rotary"
    /\ quant.mounted
    /\ quant.frameCount = 60
    /\ quant.unchangedFrames = 0
    /\ quant.rafRef = 0
    /\ ~quant.pending

====
